---- MODULE Spec2Model ----
(***************************************************************************)
(* Model of VideoAnalyzer (src/prores_analyser.py): the run() thread body, *)
(* the two ffprobe queries, the frame normalisation in _get_frame_data and *)
(* the statistics / windowing in _calculate_statistics.                    *)
(*                                                                         *)
(* Python floats are modelled as exact rationals <<n, d>> (d > 0, lowest   *)
(* terms); rounding error of IEEE arithmetic is outside the model.         *)
(* Python strings that the code parses are sequences of one-character      *)
(* strings, so that float(), int() and split('/') are computed.            *)
(* Python dicts are functions; a missing key is a key outside DOMAIN.      *)
(***************************************************************************)
EXTENDS Integers, Sequences, FiniteSets, TLC

\* Largest number of entries in the frame list returned by the frame query.
MaxFrames == 3

----------------------------------------------------------------------------
\* Exact arithmetic standing for Python float arithmetic.

Abs(x) == IF x < 0 THEN -x ELSE x

RECURSIVE GCD(_, _)
GCD(a, b) == IF b = 0 THEN a ELSE GCD(b, a % b)

\* the rational n/d in lowest terms with a positive denominator (d # 0)
Rat(n, d) ==
    LET g == GCD(Abs(n), Abs(d))
        s == IF d < 0 THEN -1 ELSE 1
    IN  <<(s * n) \div g, (s * d) \div g>>

FromInt(i) == <<i, 1>>

\* sums and products cancel common factors first, to keep the integers small
RAdd(x, y) ==
    LET g == GCD(x[2], y[2])
    IN  Rat(x[1] * (y[2] \div g) + y[1] * (x[2] \div g), (x[2] \div g) * y[2])

RMul(x, y) ==
    LET g1 == GCD(Abs(x[1]), y[2])
        g2 == GCD(Abs(y[1]), x[2])
    IN  Rat((x[1] \div g1) * (y[1] \div g2), (x[2] \div g2) * (y[2] \div g1))

\* x / y for y # 0 (Python raises ZeroDivisionError when y = 0)
RDiv(x, y) == Rat(x[1] * y[2], x[2] * y[1])

RLess(x, y) == x[1] * y[2] < y[1] * x[2]

RIsZero(x) == x[1] = 0

\* int(x) on a float: truncation toward zero
PyInt(x) == IF x[1] >= 0 THEN x[1] \div x[2] ELSE -((-x[1]) \div x[2])

----------------------------------------------------------------------------
\* Parsing of the strings found in ffprobe's JSON output.

Digits == {"0", "1", "2", "3", "4", "5", "6", "7", "8", "9"}

DigitVal(c) ==
    CASE c = "0" -> 0 [] c = "1" -> 1 [] c = "2" -> 2 [] c = "3" -> 3
      [] c = "4" -> 4 [] c = "5" -> 5 [] c = "6" -> 6 [] c = "7" -> 7
      [] c = "8" -> 8 [] c = "9" -> 9

AllDigits(s) == \A i \in 1..Len(s) : s[i] \in Digits

RECURSIVE DecVal(_)
DecVal(s) ==
    IF s = <<>> THEN 0
    ELSE 10 * DecVal(SubSeq(s, 1, Len(s) - 1)) + DigitVal(s[Len(s)])

RECURSIVE Pow10(_)
Pow10(k) == IF k = 0 THEN 1 ELSE 10 * Pow10(k - 1)

HasSign(s) == Len(s) > 0 /\ s[1] \in {"-", "+"}

Unsigned(s) == IF HasSign(s) THEN Tail(s) ELSE s

SignOf(s) == IF Len(s) > 0 /\ s[1] = "-" THEN -1 ELSE 1

\* int(s) for a str: [ok |-> TRUE, val |-> integer], or ok = FALSE for the
\* ValueError raised on anything that is not an optionally signed numeral
ParseInt(s) ==
    LET u == Unsigned(s)
    IN  IF Len(u) > 0 /\ AllDigits(u)
        THEN [ok |-> TRUE, val |-> SignOf(s) * DecVal(u)]
        ELSE [ok |-> FALSE]

\* float(s) for a str of the form [sign] digits [. digits] or [sign] . digits:
\* [ok |-> TRUE, val |-> rational], or ok = FALSE for the ValueError
ParseFloat(s) ==
    LET u    == Unsigned(s)
        dots == {i \in 1..Len(u) : u[i] = "."}
        p    == IF dots = {} THEN Len(u) + 1 ELSE CHOOSE i \in dots : TRUE
        ip   == SubSeq(u, 1, p - 1)
        fp   == SubSeq(u, p + 1, Len(u))
    IN  IF /\ Cardinality(dots) <= 1
           /\ AllDigits(ip) /\ AllDigits(fp)
           /\ Len(ip) + Len(fp) > 0
        THEN [ok  |-> TRUE,
              val |-> Rat(SignOf(s) * (DecVal(ip) * Pow10(Len(fp)) + DecVal(fp)),
                          Pow10(Len(fp)))]
        ELSE [ok |-> FALSE]

\* s.split('/'): the pieces of s between the slashes
RECURSIVE Split(_)
Split(s) ==
    LET cut == {i \in 1..Len(s) : s[i] = "/"}
    IN  IF cut = {} THEN <<s>>
        ELSE LET p == CHOOSE i \in cut : \A j \in cut : i <= j
             IN  <<SubSeq(s, 1, p - 1)>> \o Split(SubSeq(s, p + 1, Len(s)))

\* d.get(k, default) on a dict
Get(d, k, default) == IF k \in DOMAIN d THEN d[k] ELSE default

EmptyDict == [k \in {} |-> 0]

----------------------------------------------------------------------------
\* Outcome of a call: a returned value, or a raised exception.

Ok(v) == [tag |-> "ok", val |-> v]

Raise(e) == [tag |-> "raise", exc |-> e]

NotRun == [tag |-> "notrun"]

----------------------------------------------------------------------------
\* _get_video_metadata

Str_24_1 == <<"2", "4", "/", "1">>

\* next(s for s in streams if s['codec_type'] == 'video'), scanning from i
RECURSIVE FirstVideo(_, _)
FirstVideo(streams, i) ==
    IF i > Len(streams) THEN Raise("StopIteration")
    ELSE IF "codec_type" \notin DOMAIN streams[i] THEN Raise("KeyError")
    ELSE IF streams[i]["codec_type"] = "video" THEN Ok(streams[i])
    ELSE FirstVideo(streams, i + 1)

\* float(fps_parts[0]) / float(fps_parts[1])
ParseFps(r_frame_rate) ==
    LET fps_parts == Split(r_frame_rate)
        num == ParseFloat(fps_parts[1])
    IN  IF ~num.ok THEN Raise("ValueError")
        ELSE IF Len(fps_parts) < 2 THEN Raise("IndexError")
        ELSE LET den == ParseFloat(fps_parts[2])
             IN  IF ~den.ok THEN Raise("ValueError")
                 ELSE IF RIsZero(den.val) THEN Raise("ZeroDivisionError")
                 ELSE Ok(RDiv(num.val, den.val))

\* the dict built by the return statement, once fps is known
MetadataDict(data, video_stream, fps) ==
    IF "format" \notin DOMAIN data THEN Raise("KeyError")
    ELSE LET format   == data["format"]
             duration == IF "duration" \in DOMAIN format
                         THEN ParseFloat(format["duration"])
                         ELSE [ok |-> TRUE, val |-> FromInt(0)]
             size     == IF "size" \in DOMAIN format
                         THEN ParseInt(format["size"])
                         ELSE [ok |-> TRUE, val |-> 0]
             bitrate  == IF "bit_rate" \in DOMAIN format
                         THEN ParseInt(format["bit_rate"])
                         ELSE [ok |-> TRUE, val |-> 0]
         IN  IF ~duration.ok \/ ~size.ok \/ ~bitrate.ok
             THEN Raise("ValueError")
             ELSE Ok([codec      |-> Get(video_stream, "codec_name", "Unknown"),
                      codec_long |-> Get(video_stream, "codec_long_name", "Unknown"),
                      width      |-> Get(video_stream, "width", 0),
                      height     |-> Get(video_stream, "height", 0),
                      fps        |-> fps,
                      duration   |-> duration.val,
                      size       |-> size.val,
                      bitrate    |-> bitrate.val])

\* out is what the ffprobe metadata query produced
GetVideoMetadata(out) ==
    IF out.kind = "exit_nonzero" THEN Raise("CalledProcessError")
    ELSE IF out.kind = "bad_json" THEN Raise("JSONDecodeError")
    ELSE LET data == out.data
         IN  IF "streams" \notin DOMAIN data THEN Raise("KeyError")
             ELSE LET vs == FirstVideo(data["streams"], 1)
                  IN  IF vs.tag = "raise" THEN vs
                      ELSE LET fps == ParseFps(Get(vs.val, "r_frame_rate", Str_24_1))
                           IN  IF fps.tag = "raise" THEN fps
                               ELSE MetadataDict(data, vs.val, fps.val)

----------------------------------------------------------------------------
\* _get_frame_data

\* FrameTime with the bug of counting the entries from 1
FrameTime_OneBased(frame, frame_num, fps) ==
    IF \/ "pkt_pts_time" \notin DOMAIN frame
       \/ frame["pkt_pts_time"] = <<>>
       \/ frame["pkt_pts_time"] = <<"0">>
    THEN IF RIsZero(fps) THEN Raise("ZeroDivisionError")
         ELSE Ok(RDiv(FromInt(frame_num + 1), fps))
    ELSE LET parsed == ParseFloat(frame["pkt_pts_time"])
         IN  IF parsed.ok THEN Ok(parsed.val)
             ELSE IF RIsZero(fps) THEN Raise("ZeroDivisionError")
             ELSE Ok(RDiv(FromInt(frame_num + 1), fps))

\* the time of the entry at 0-based position frame_num
FrameTime(frame, frame_num, fps) ==
    IF \/ "pkt_pts_time" \notin DOMAIN frame
       \/ frame["pkt_pts_time"] = <<>>
       \/ frame["pkt_pts_time"] = <<"0">>
    THEN IF RIsZero(fps) THEN Raise("ZeroDivisionError")
         ELSE Ok(RDiv(FromInt(frame_num), fps))
    ELSE LET parsed == ParseFloat(frame["pkt_pts_time"])
         IN  IF parsed.ok THEN Ok(parsed.val)
             ELSE IF RIsZero(fps) THEN Raise("ZeroDivisionError")
             ELSE Ok(RDiv(FromInt(frame_num), fps))

\* int(frame.get('pkt_size', 0))
FrameSize(frame) ==
    IF "pkt_size" \notin DOMAIN frame THEN Ok(0)
    ELSE LET parsed == ParseInt(frame["pkt_size"])
         IN  IF parsed.ok THEN Ok(parsed.val) ELSE Raise("ValueError")

\* frame.get('pict_type', 'P')
FrameType(frame) == Get(frame, "pict_type", "P")

\* FrameLoop with the bug of dropping the entries that carry no timestamp
RECURSIVE FrameLoop_SkipUntimed(_, _, _, _)
FrameLoop_SkipUntimed(raw, frame_num, frames, fps) ==
    IF frame_num >= Len(raw) THEN Ok(frames)
    ELSE LET frame    == raw[frame_num + 1]
             time_val == FrameTime(frame, frame_num, fps)
             size     == FrameSize(frame)
         IN  IF "pkt_pts_time" \notin DOMAIN frame
             THEN FrameLoop_SkipUntimed(raw, frame_num + 1, frames, fps)
             ELSE IF time_val.tag = "raise" THEN time_val
             ELSE IF size.tag = "raise" THEN size
             ELSE FrameLoop_SkipUntimed(raw, frame_num + 1,
                            Append(frames, [time |-> time_val.val,
                                            size |-> size.val,
                                            type |-> FrameType(frame)]),
                            fps)

\* the for loop: raw[frame_num + 1 ..] still to process, frames built so far
RECURSIVE FrameLoop(_, _, _, _)
FrameLoop(raw, frame_num, frames, fps) ==
    IF frame_num >= Len(raw) THEN Ok(frames)
    ELSE LET frame    == raw[frame_num + 1]
             time_val == FrameTime(frame, frame_num, fps)
             size     == FrameSize(frame)
         IN  IF time_val.tag = "raise" THEN time_val
             ELSE IF size.tag = "raise" THEN size
             ELSE FrameLoop(raw, frame_num + 1,
                            Append(frames, [time |-> time_val.val,
                                            size |-> size.val,
                                            type |-> FrameType(frame)]),
                            fps)

\* out is what the ffprobe frame query produced
GetFrameData(out, fps) ==
    IF out.kind = "exit_nonzero" THEN Raise("CalledProcessError")
    ELSE IF out.kind = "bad_json" THEN Raise("JSONDecodeError")
    ELSE IF out.kind = "json_array" THEN Raise("AttributeError")
    ELSE LET frames == Get(out.data, "frames", [t |-> "list", v |-> <<>>])
         IN  IF frames.t = "null" THEN Raise("TypeError")
             ELSE FrameLoop(frames.v, 0, <<>>, fps)

----------------------------------------------------------------------------
\* _calculate_statistics

Million == 1000000

RECURSIVE RSum(_)
RSum(xs) == IF xs = <<>> THEN FromInt(0) ELSE RAdd(Head(xs), RSum(Tail(xs)))

\* Bitrates with the bug of leaving out the bytes-to-bits factor
Bitrates_Bytes(sizes, fps) ==
    [i \in 1..Len(sizes) |->
        RDiv(RMul(FromInt(sizes[i]), fps), FromInt(Million))]

\* (sizes * 8 * fps) / 1_000_000, element by element
Bitrates(sizes, fps) ==
    [i \in 1..Len(sizes) |->
        RDiv(RMul(RMul(FromInt(sizes[i]), FromInt(8)), fps), FromInt(Million))]

\* window_frames = int(metadata['fps'])
WindowFrames(fps) == PyInt(fps)

\* Kernel with the bug of leaving out the division by window_frames
Kernel_Unscaled(window_frames) ==
    [k \in 1..window_frames |-> FromInt(1)]

\* np.ones(window_frames) / window_frames, for window_frames >= 0
Kernel(window_frames) ==
    [k \in 1..window_frames |-> RDiv(FromInt(1), FromInt(window_frames))]

\* np.convolve(a, v, mode='valid') for non-empty a and v; NumPy swaps the
\* operands when v is the longer one
Convolve(a, v) ==
    LET long  == IF Len(v) > Len(a) THEN v ELSE a
        short == IF Len(v) > Len(a) THEN a ELSE v
        w     == Len(short)
    IN  [i \in 1..(Len(long) - w + 1) |->
            RSum([k \in 1..w |-> RMul(long[i + k - 1], short[w - k + 1])])]

\* xs[lo:hi] for 0 <= lo, 0 <= hi (Python clamps the slice to the sequence)
PySlice(xs, lo, hi) ==
    LET top == IF hi > Len(xs) THEN Len(xs) ELSE hi
    IN  IF lo >= top THEN <<>> ELSE SubSeq(xs, lo + 1, top)

\* offset = window_frames // 2, with the bug of taking the whole window
WindowOffset_Whole(window_frames) == window_frames

\* offset = window_frames // 2
WindowOffset(window_frames) == window_frames \div 2

\* the windowed pair (windowed_bitrates, windowed_times) of lines 178-192
Windowed(bitrates, times, fps) ==
    LET window_frames == WindowFrames(fps)
    IN  IF Len(bitrates) > window_frames
        THEN IF window_frames < 0 THEN Raise("ValueError")
             ELSE IF window_frames = 0 THEN Raise("ValueError")
             ELSE LET windowed_bitrates == Convolve(bitrates, Kernel(window_frames))
                      offset == WindowOffset(window_frames)
                  IN  Ok([windowed_bitrates |-> windowed_bitrates,
                          windowed_times |->
                              PySlice(times, offset, offset + Len(windowed_bitrates))])
        ELSE Ok([windowed_bitrates |-> bitrates, windowed_times |-> times])

Mean(xs) == RDiv(RSum(xs), FromInt(Len(xs)))

Max(xs) == CHOOSE x \in {xs[i] : i \in 1..Len(xs)} :
              \A j \in 1..Len(xs) : ~RLess(x, xs[j])

Min(xs) == CHOOSE x \in {xs[i] : i \in 1..Len(xs)} :
              \A j \in 1..Len(xs) : ~RLess(xs[j], x)

\* np.std is the square root of the population variance; the root is kept
\* symbolic as [sqrt |-> variance]
Std(xs) ==
    LET m   == Mean(xs)
        dev == [i \in 1..Len(xs) |-> RAdd(xs[i], RMul(FromInt(-1), m))]
    IN  [sqrt |-> Mean([i \in 1..Len(xs) |-> RMul(dev[i], dev[i])])]

\* IFrameCount with the bug of comparing without regard to case
IFrameCount_AnyCase(frame_types) ==
    Cardinality({i \in 1..Len(frame_types) : frame_types[i] \in {"I", "i"}})

\* sum(1 for f in frame_types if f == 'I')
IFrameCount(frame_types) ==
    Cardinality({i \in 1..Len(frame_types) : frame_types[i] = "I"})

\* CalculateStatistics with the bug of a missing `if not frame_data` guard:
\* times[0] at line 194 then raises on an empty array
CalculateStatistics_NoGuard(frame_data, metadata) ==
    IF frame_data = <<>> THEN Raise("IndexError")
    ELSE LET times       == [i \in 1..Len(frame_data) |-> frame_data[i].time]
             sizes       == [i \in 1..Len(frame_data) |-> frame_data[i].size]
             frame_types == [i \in 1..Len(frame_data) |-> frame_data[i].type]
             bitrates    == Bitrates(sizes, metadata.fps)
             win         == Windowed(bitrates, times, metadata.fps)
         IN  IF win.tag = "raise" THEN win
             ELSE Ok([avg_bitrate       |-> Mean(bitrates),
                      max_bitrate       |-> Max(bitrates),
                      min_bitrate       |-> Min(bitrates),
                      std_bitrate       |-> Std(bitrates),
                      frame_count       |-> Len(frame_data),
                      i_frame_count     |-> IFrameCount(frame_types),
                      bitrates          |-> bitrates,
                      times             |-> times,
                      windowed_bitrates |-> win.val.windowed_bitrates,
                      windowed_times    |-> win.val.windowed_times,
                      frame_types       |-> frame_types])

CalculateStatistics(frame_data, metadata) ==
    IF frame_data = <<>> THEN Ok(EmptyDict)
    ELSE LET times       == [i \in 1..Len(frame_data) |-> frame_data[i].time]
             sizes       == [i \in 1..Len(frame_data) |-> frame_data[i].size]
             frame_types == [i \in 1..Len(frame_data) |-> frame_data[i].type]
             bitrates    == Bitrates(sizes, metadata.fps)
             win         == Windowed(bitrates, times, metadata.fps)
         IN  IF win.tag = "raise" THEN win
             ELSE Ok([avg_bitrate       |-> Mean(bitrates),
                      max_bitrate       |-> Max(bitrates),
                      min_bitrate       |-> Min(bitrates),
                      std_bitrate       |-> Std(bitrates),
                      frame_count       |-> Len(frame_data),
                      i_frame_count     |-> IFrameCount(frame_types),
                      bitrates          |-> bitrates,
                      times             |-> times,
                      windowed_bitrates |-> win.val.windowed_bitrates,
                      windowed_times    |-> win.val.windowed_times,
                      frame_types       |-> frame_types])

----------------------------------------------------------------------------
\* _calculate_statistics of prores_analyser_v1.0.0.py: the windowed series is
\* built from one-second bins of elapsed time that start at the first frame's
\* time.

\* window_size = 1.0
WindowSize == FromInt(1)

\* [br for t, br in zip(times, bitrates) if current_time <= t < window_end]
RECURSIVE FramesInWindow(_, _, _, _)
FramesInWindow(times, bitrates, current_time, window_end) ==
    IF times = <<>> \/ bitrates = <<>> THEN <<>>
    ELSE LET rest == FramesInWindow(Tail(times), Tail(bitrates),
                                    current_time, window_end)
         IN  IF ~RLess(Head(times), current_time) /\ RLess(Head(times), window_end)
             THEN <<Head(bitrates)>> \o rest
             ELSE rest

\* the loop `while current_time < max_time`, entered with the lists built so far
RECURSIVE TimeWindows(_, _, _, _, _, _)
TimeWindows(times, bitrates, current_time, max_time, windowed_bitrates, windowed_times) ==
    IF ~RLess(current_time, max_time)
    THEN [windowed_bitrates |-> windowed_bitrates,
          windowed_times    |-> windowed_times]
    ELSE LET window_end    == RAdd(current_time, WindowSize)
             window_frames == FramesInWindow(times, bitrates,
                                             current_time, window_end)
         IN  IF window_frames # <<>>
             THEN TimeWindows(times, bitrates, window_end, max_time,
                      Append(windowed_bitrates, Mean(window_frames)),
                      Append(windowed_times,
                             RAdd(current_time, RDiv(WindowSize, FromInt(2)))))
             ELSE TimeWindows(times, bitrates, window_end, max_time,
                      windowed_bitrates, windowed_times)

CalculateStatistics_v1_0_0(frame_data, metadata) ==
    IF frame_data = <<>> THEN Ok(EmptyDict)
    ELSE LET times       == [i \in 1..Len(frame_data) |-> frame_data[i].time]
             bitrates    ==
                 [i \in 1..Len(frame_data) |->
                     RDiv(RMul(RMul(FromInt(frame_data[i].size), FromInt(8)),
                               metadata.fps),
                          FromInt(Million))]
             frame_types == [i \in 1..Len(frame_data) |-> frame_data[i].type]
             win         == TimeWindows(times, bitrates, times[1],
                                        times[Len(times)], <<>>, <<>>)
         IN  Ok([avg_bitrate       |-> Mean(bitrates),
                 max_bitrate       |-> Max(bitrates),
                 min_bitrate       |-> Min(bitrates),
                 std_bitrate       |-> Std(bitrates),
                 frame_count       |-> Len(frame_data),
                 i_frame_count     |->
                     Cardinality({i \in 1..Len(frame_data) : frame_types[i] = "I"}),
                 bitrates          |-> bitrates,
                 times             |-> times,
                 windowed_bitrates |-> win.windowed_bitrates,
                 windowed_times    |-> win.windowed_times])

----------------------------------------------------------------------------
\* What ffprobe can answer.  The metadata query prints a JSON object with
\* "streams" and "format"; the frame query prints {"frames": [...]} whose
\* entries carry pkt_pts_time, pkt_size and pict_type as strings.

Json(d) == [kind |-> "json_object", data |-> d]

AudioStream == [codec_type |-> "audio", codec_name |-> "aac"]

VideoStream ==
    [codec_type |-> "video", codec_name |-> "prores",
     codec_long_name |-> "Apple ProRes", width |-> 1920, height |-> 1080]

WithRate(stream, rate) ==
    [k \in DOMAIN stream \cup {"r_frame_rate"} |->
        IF k = "r_frame_rate" THEN rate ELSE stream[k]]

Format ==
    [duration |-> <<"1", ".", "5">>,
     size     |-> <<"6", "0", "0", "0">>,
     bit_rate |-> <<"3", "2", "0", "0", "0">>]

Rates ==
    { <<"1", "/", "1">>, <<"3", "/", "2">>, <<"2", "/", "1">>,
      <<"8", "/", "3">>, <<"1", "/", "2">>, <<"0", "/", "1">>,
      <<"-", "1", "/", "1">>, <<"0", "/", "0">>, <<"2">>,
      <<"N", "/", "A">> }

MetaOutputs ==
    { [kind |-> "exit_nonzero"], [kind |-> "bad_json"],
      Json(EmptyDict),
      Json([streams |-> <<AudioStream>>, format |-> Format]),
      Json([streams |-> <<[codec_name |-> "prores"]>>, format |-> Format]),
      Json([streams |-> <<AudioStream, VideoStream>>, format |-> Format]),
      Json([streams |-> <<WithRate(VideoStream, <<"1", "/", "1">>)>>]),
      Json([streams |-> <<WithRate(VideoStream, <<"1", "/", "1">>)>>,
            format  |-> [size |-> <<"N", "/", "A">>]]) }
    \cup
    { Json([streams |-> <<AudioStream, WithRate(VideoStream, r)>>,
            format  |-> Format]) : r \in Rates }

RawFrames ==
    { [pkt_pts_time |-> <<"0", ".", "5">>,
       pkt_size |-> <<"1", "2", "5", "0", "0", "0">>, pict_type |-> "I"],
      [pkt_size |-> <<"2", "5", "0", "0", "0", "0">>, pict_type |-> "P"],
      [pkt_pts_time |-> <<>>,
       pkt_size |-> <<"1", "2", "5", "0", "0", "0">>, pict_type |-> "i"],
      [pkt_pts_time |-> <<"0">>,
       pkt_size |-> <<"3", "7", "5", "0", "0", "0">>, pict_type |-> "P"],
      [pkt_pts_time |-> <<"N", "/", "A">>,
       pkt_size |-> <<"1", "2", "5", "0", "0", "0">>, pict_type |-> "?"],
      [pkt_pts_time |-> <<"1", ".", "2", "5">>, pict_type |-> "B"],
      [pkt_pts_time |-> <<"1", ".", "5">>,
       pkt_size |-> <<"-", "1", "2", "5", "0", "0", "0">>, pict_type |-> "I"],
      [pkt_pts_time |-> <<"2">>,
       pkt_size |-> <<"N", "/", "A">>] }

RawFrameLists == UNION { [1..n -> RawFrames] : n \in 0..MaxFrames }

FrameOutputs ==
    { [kind |-> "exit_nonzero"], [kind |-> "bad_json"], [kind |-> "json_array"],
      Json(EmptyDict),
      Json([frames |-> [t |-> "null"]]) }
    \cup
    { Json([frames |-> [t |-> "list", v |-> raw]]) : raw \in RawFrameLists }

----------------------------------------------------------------------------
\* VideoAnalyzer.run, one action per stage of the thread body.

VARIABLES
    pc,          \* stage of run() reached: start, checked, metadata, frames, stats, done
    events,      \* the signals emitted so far, in order
    avail,       \* outcome of `ffprobe -version`
    meta_out,    \* what the metadata query printed
    metadata,    \* outcome of _get_video_metadata
    frame_out,   \* what the frame query printed
    frame_data,  \* outcome of _get_frame_data
    stats        \* outcome of _calculate_statistics

\* MainWindow, and the VideoAnalyzer threads it has started.
VARIABLES
    app,              \* "running", or why the application was aborted
    current_file,     \* self.current_file
    results,          \* self.results
    analyzers,        \* every VideoAnalyzer started; the last one is self.analyzer
    export_btn,       \* export_btn.isEnabled()
    export_graph_btn, \* export_graph_btn.isEnabled()
    progress_bar,     \* visibility and value of the progress bar
    status_label,     \* text and style of the status label
    file_label,       \* text of the file label
    info_text,        \* content of the results pane
    chart,            \* the series drawn by BitrateChart.plot_bitrate
    last_directory,   \* settings value "last_directory"
    exported          \* the record most recently written by export_data

runvars == <<pc, events, avail, meta_out, metadata, frame_out, frame_data, stats>>

uivars == <<app, current_file, results, analyzers, export_btn, export_graph_btn,
            progress_bar, status_label, file_label, info_text, chart,
            last_directory, exported>>

vars == <<runvars, uivars>>

None == [none |-> TRUE]

HomeDir == "/home"

NotQueried == [kind |-> "none"]

Progress(value) == [sig |-> "progress", value |-> value]

Finished(payload) == [sig |-> "finished", results |-> payload]

Error(message) == [sig |-> "error", message |-> message]

Init ==
    /\ pc = "start"
    /\ events = <<>>
    /\ avail = "notrun"
    /\ meta_out = NotQueried
    /\ metadata = NotRun
    /\ frame_out = NotQueried
    /\ frame_data = NotRun
    /\ stats = NotRun
    /\ app = "running"
    /\ current_file = None
    /\ results = None
    /\ analyzers = <<>>
    /\ export_btn = FALSE
    /\ export_graph_btn = FALSE
    /\ progress_bar = [visible |-> FALSE, value |-> 0]
    /\ status_label = [text |-> <<"">>, style |-> ""]
    /\ file_label = <<"No file selected">>
    /\ info_text = [shown |-> FALSE]
    /\ chart = [plotted |-> FALSE]
    /\ last_directory = HomeDir
    /\ exported = None

\* RunCheckFFprobe with the bug of a missing `return` after the error signal
RunCheckFFprobe_NoReturn ==
    /\ pc = "start"
    /\ \E a \in {"ok", "raise"} :
          /\ avail' = a
          /\ IF a = "raise"
             THEN events' = events \o <<Progress(10), Error("FFprobe not found")>>
             ELSE events' = Append(events, Progress(10))
          /\ pc' = "checked"
    /\ UNCHANGED <<meta_out, metadata, frame_out, frame_data, stats>>
    /\ UNCHANGED uivars

\* lines 85-90
RunCheckFFprobe ==
    /\ pc = "start"
    /\ \E a \in {"ok", "raise"} :
          /\ avail' = a
          /\ IF a = "raise"
             THEN /\ events' = events \o <<Progress(10), Error("FFprobe not found")>>
                  /\ pc' = "done"
             ELSE /\ events' = Append(events, Progress(10))
                  /\ pc' = "checked"
    /\ UNCHANGED <<meta_out, metadata, frame_out, frame_data, stats>>
    /\ UNCHANGED uivars

\* RunGetVideoMetadata with the bug of carrying on with default metadata
\* when the query raises
RunGetVideoMetadata_Default ==
    /\ pc = "checked"
    /\ \E out \in MetaOutputs :
          LET r == GetVideoMetadata(out)
          IN  /\ meta_out' = out
              /\ metadata' = IF r.tag = "raise"
                             THEN MetadataDict([format |-> EmptyDict], EmptyDict,
                                               FromInt(24))
                             ELSE r
              /\ events' = Append(events, Progress(20))
              /\ pc' = "metadata"
    /\ UNCHANGED <<avail, frame_out, frame_data, stats>>
    /\ UNCHANGED uivars

\* lines 92-93, and 107-108 when the call raises
RunGetVideoMetadata ==
    /\ pc = "checked"
    /\ \E out \in MetaOutputs :
          LET r == GetVideoMetadata(out)
          IN  /\ meta_out' = out
              /\ metadata' = r
              /\ IF r.tag = "raise"
                 THEN /\ events' = events \o <<Progress(20), Error("Analysis error")>>
                      /\ pc' = "done"
                 ELSE /\ events' = Append(events, Progress(20))
                      /\ pc' = "metadata"
    /\ UNCHANGED <<avail, frame_out, frame_data, stats>>
    /\ UNCHANGED uivars

\* lines 95-96, and 107-108 when the call raises
RunGetFrameData ==
    /\ pc = "metadata"
    /\ \E out \in FrameOutputs :
          LET r == GetFrameData(out, metadata.val.fps)
          IN  /\ frame_out' = out
              /\ frame_data' = r
              /\ IF r.tag = "raise"
                 THEN /\ events' = events \o <<Progress(40), Error("Analysis error")>>
                      /\ pc' = "done"
                 ELSE /\ events' = Append(events, Progress(40))
                      /\ pc' = "frames"
    /\ UNCHANGED <<avail, meta_out, metadata, stats>>
    /\ UNCHANGED uivars

\* lines 98-99, and 107-108 when the call raises
RunCalculateStatistics ==
    /\ pc = "frames"
    /\ LET r == CalculateStatistics(frame_data.val, metadata.val)
       IN  /\ stats' = r
           /\ IF r.tag = "raise"
              THEN /\ events' = events \o <<Progress(70), Error("Analysis error")>>
                   /\ pc' = "done"
              ELSE /\ events' = Append(events, Progress(70))
                   /\ pc' = "stats"
    /\ UNCHANGED <<avail, meta_out, metadata, frame_out, frame_data>>
    /\ UNCHANGED uivars

\* lines 101-105
RunFinish ==
    /\ pc = "stats"
    /\ events' = events \o
          << Progress(90), Progress(100),
             Finished([metadata   |-> metadata.val,
                       frame_data |-> frame_data.val,
                       stats      |-> stats.val]) >>
    /\ pc' = "done"
    /\ UNCHANGED <<avail, meta_out, metadata, frame_out, frame_data, stats>>
    /\ UNCHANGED uivars

Next ==
    \/ RunCheckFFprobe
    \/ RunGetVideoMetadata
    \/ RunGetFrameData
    \/ RunCalculateStatistics
    \/ RunFinish

Spec == Init /\ [][Next]_vars

----------------------------------------------------------------------------
\* Vocabulary of the properties.

Last(xs) == xs[Len(xs)]

IsTerminal(e) == e.sig \in {"finished", "error"}

TerminalIdx == {i \in 1..Len(events) : IsTerminal(events[i])}

ProgressIdx == {i \in 1..Len(events) : events[i].sig = "progress"}

AllStagesSucceeded ==
    /\ avail = "ok"
    /\ metadata.tag = "ok"
    /\ frame_data.tag = "ok"
    /\ stats.tag = "ok"

\* the raw entries the frame query delivered (none when the key is missing)
RawList ==
    IF frame_out.kind = "json_object" /\ "frames" \in DOMAIN frame_out.data
       /\ frame_out.data["frames"].t = "list"
    THEN frame_out.data["frames"].v
    ELSE <<>>

\* the frame query printed a JSON object that carries a list under "frames"
CarriesFrameList ==
    /\ frame_out.kind = "json_object"
    /\ "frames" \in DOMAIN frame_out.data
    /\ frame_out.data["frames"].t = "list"

\* statistics were computed for at least one frame
HasStats == stats.tag = "ok" /\ frame_data.tag = "ok" /\ frame_data.val # <<>>

Fps == metadata.val.fps

\* Python's round(x): nearest integer, ties to the even one
PyRound(x) ==
    LET f == x[1] \div x[2]
        r == 2 * (x[1] - f * x[2])
    IN  IF r < x[2] THEN f
        ELSE IF r > x[2] THEN f + 1
        ELSE IF f % 2 = 0 THEN f ELSE f + 1

----------------------------------------------------------------------------
\* C1: the events emitted by run() are progress notifications with strictly
\* increasing percentage followed by exactly one terminal event, which is
\* finished exactly when every stage succeeded and error otherwise; nothing
\* is emitted after the terminal event.
C1_EventProtocol ==
    /\ \A i, j \in ProgressIdx : i < j => events[i].value < events[j].value
    /\ Cardinality(TerminalIdx) <= 1
    /\ \A i \in TerminalIdx : i = Len(events)
    /\ pc = "done" <=> TerminalIdx # {}
    /\ pc = "done" => (Last(events).sig = "finished" <=> AllStagesSucceeded)
    /\ pc = "done" => (Last(events).sig = "error" <=> ~AllStagesSucceeded)

C1_Witness ==
    /\ pc = "done"
    /\ Len(events) = 7
    /\ Last(events).sig = "finished"
    /\ AllStagesSucceeded

\* C2: the stages run in the order availability check, metadata query, frame
\* query, statistics, and a failed stage keeps every later one from starting.
C2_StageOrder ==
    /\ avail # "ok" =>
          meta_out.kind = "none" /\ frame_out.kind = "none" /\ stats.tag = "notrun"
    /\ (meta_out.kind = "none" \/ GetVideoMetadata(meta_out).tag = "raise") =>
          frame_out.kind = "none" /\ stats.tag = "notrun"
    /\ (frame_out.kind = "none" \/ frame_data.tag = "raise") =>
          stats.tag = "notrun"

C2_Witness ==
    /\ pc = "done"
    /\ metadata.tag = "raise"
    /\ metadata.exc = "StopIteration"
    /\ frame_out.kind = "none"

\* C3: when the frame query's output carries no frame list (malformed JSON,
\* not an object, or an object without a list under "frames"), run() ends
\* with the error event and never with finished.
C3_NoSilentFallback ==
    (pc = "done" /\ frame_out.kind # "none" /\ ~CarriesFrameList)
        => Last(events).sig = "error"

\* C4: the record at 0-based position n takes the parsed pkt_pts_time when
\* that is present, non-empty, not the string "0" and parses as a float, and
\* n / fps in every other case.
C4_TimestampResolution ==
    frame_data.tag = "ok" =>
        /\ Len(frame_data.val) = Len(RawList)
        /\ \A n \in 0..(Len(RawList) - 1) :
              LET frame == RawList[n + 1]
                  usable ==
                      /\ "pkt_pts_time" \in DOMAIN frame
                      /\ frame["pkt_pts_time"] # <<>>
                      /\ frame["pkt_pts_time"] # <<"0">>
                      /\ ParseFloat(frame["pkt_pts_time"]).ok
              IN  IF usable
                  THEN frame_data.val[n + 1].time = ParseFloat(frame["pkt_pts_time"]).val
                  ELSE frame_data.val[n + 1].time = RDiv(FromInt(n), Fps)

C4_Witness ==
    /\ frame_data.tag = "ok"
    /\ Len(RawList) = 3
    /\ "pkt_pts_time" \in DOMAIN RawList[1]
    /\ RawList[1]["pkt_pts_time"] = <<"0", ".", "5">>
    /\ "pkt_pts_time" \in DOMAIN RawList[2]
    /\ RawList[2]["pkt_pts_time"] = <<"N", "/", "A">>
    /\ "pkt_pts_time" \in DOMAIN RawList[3]
    /\ RawList[3]["pkt_pts_time"] = <<"0">>
    /\ Fps = <<3, 2>>
    /\ frame_data.val[1].time = <<1, 2>>
    /\ frame_data.val[2].time = <<2, 3>>
    /\ frame_data.val[3].time = <<4, 3>>

\* C5: N raw entries give N records in the same order, and for N > 0 the
\* statistics have times, bitrates and frame_types of length N and
\* frame_count = N.
C5_Lengths ==
    /\ frame_data.tag = "ok" =>
          /\ Len(frame_data.val) = Len(RawList)
          /\ \A i \in 1..Len(RawList) :
                /\ frame_data.val[i].type = Get(RawList[i], "pict_type", "P")
                /\ ("pkt_size" \in DOMAIN RawList[i] =>
                       frame_data.val[i].size = ParseInt(RawList[i]["pkt_size"]).val)
    /\ (stats.tag = "ok" /\ Len(RawList) > 0) =>
          /\ Len(stats.val.times) = Len(RawList)
          /\ Len(stats.val.bitrates) = Len(RawList)
          /\ Len(stats.val.frame_types) = Len(RawList)
          /\ stats.val.frame_count = Len(RawList)

C5_Witness ==
    /\ stats.tag = "ok"
    /\ Len(RawList) = 3
    /\ \E i \in 1..3 : "pkt_pts_time" \notin DOMAIN RawList[i]
    /\ stats.val.frame_count = 3

\* C6: for fps > 0 every per-frame bitrate is size * 8 * fps / 1_000_000 and
\* times[i] is the record's time.
C6_BitrateFormula ==
    (HasStats /\ RLess(FromInt(0), Fps)) =>
        \A i \in 1..Len(frame_data.val) :
            /\ RMul(stats.val.bitrates[i], FromInt(1000000))
                  = RMul(FromInt(frame_data.val[i].size * 8), Fps)
            /\ stats.val.times[i] = frame_data.val[i].time

C6_Witness ==
    /\ HasStats
    /\ Fps = <<8, 3>>
    /\ Len(frame_data.val) = 2
    /\ frame_data.val[1].size = 125000
    /\ stats.val.bitrates[1] = <<8, 3>>
    /\ frame_data.val[2].size = 375000
    /\ stats.val.bitrates[2] = <<8, 1>>

\* C7: for fps > 0 the window width is round(fps), the nearest integer to
\* fps, and it is at least 1 whenever a windowed series is computed.
C7_WindowIsRound ==
    (HasStats /\ RLess(FromInt(0), Fps)) =>
        /\ WindowFrames(Fps) = PyRound(Fps)
        /\ WindowFrames(Fps) >= 1

\* C8: a non-empty frame list with len(frames) <= round(fps) has a windowed
\* series equal to the per-frame series.
C8_ShortPassthrough ==
    (HasStats /\ Len(frame_data.val) <= PyRound(Fps)) =>
        /\ stats.val.windowed_times = stats.val.times
        /\ stats.val.windowed_bitrates = stats.val.bitrates

\* C9: a frame list with len(frames) > round(fps) has a windowed series of
\* len(frames) - round(fps) + 1 points, never more than the per-frame series.
C9_WindowCount ==
    (HasStats /\ Len(frame_data.val) > PyRound(Fps)) =>
        /\ Len(stats.val.windowed_bitrates) = Len(frame_data.val) - PyRound(Fps) + 1
        /\ Len(stats.val.windowed_bitrates) <= Len(stats.val.bitrates)

\* C10: in the long-input case windowed_times[i] is times[i + window_frames // 2],
\* that index lies within times, and windowed_times is as long as
\* windowed_bitrates.
C10_WindowAlignment ==
    (HasStats /\ Len(stats.val.bitrates) > WindowFrames(Fps)) =>
        LET w == WindowFrames(Fps)
        IN  /\ Len(stats.val.windowed_times) = Len(stats.val.windowed_bitrates)
            /\ \A i \in 1..Len(stats.val.windowed_bitrates) :
                  /\ i + (w \div 2) <= Len(stats.val.times)
                  /\ stats.val.windowed_times[i] = stats.val.times[i + (w \div 2)]

C10_Witness ==
    /\ HasStats
    /\ WindowFrames(Fps) = 2
    /\ Len(stats.val.bitrates) = 3
    /\ Len(stats.val.windowed_times) = 2
    /\ stats.val.windowed_times[1] = stats.val.times[2]
    /\ stats.val.times[2] # stats.val.times[1]

\* C11: for a frame list with zero frames _calculate_statistics returns an
\* empty result (no avg/max/min/std keys) and does not raise.
C11_EmptyStatistics ==
    (frame_data.tag = "ok" /\ frame_data.val = <<>> /\ stats.tag # "notrun") =>
        /\ stats.tag = "ok"
        /\ DOMAIN stats.val = {}

C11_Witness ==
    /\ CarriesFrameList
    /\ RawList = <<>>
    /\ stats.tag = "ok"
    /\ DOMAIN stats.val = {}
    /\ pc = "done"

\* C13: for a non-empty frame list i_frame_count is the number of records
\* whose type is exactly "I", and 0 <= i_frame_count <= frame_count.
C13_IFrameCount ==
    HasStats =>
        /\ stats.val.i_frame_count =
              Cardinality({i \in 1..Len(frame_data.val) : frame_data.val[i].type = "I"})
        /\ 0 <= stats.val.i_frame_count
        /\ stats.val.i_frame_count <= stats.val.frame_count

C13_Witness ==
    /\ HasStats
    /\ Len(frame_data.val) = 3
    /\ frame_data.val[1].type = "I"
    /\ frame_data.val[2].type = "i"
    /\ frame_data.val[3].type = "P"
    /\ stats.val.i_frame_count = 1

\* C14: when the metadata frame rate is not positive, the analysis ends with
\* the error event for every frame list.
C14_NonPositiveFpsFails ==
    (pc = "done" /\ metadata.tag = "ok" /\ ~RLess(FromInt(0), Fps))
        => Last(events).sig = "error"

\* C15: every record has a non-negative size, 0 when pkt_size is absent, and
\* no negative size reaches the bitrate computation.
C15_SizeNonNegative ==
    frame_data.tag = "ok" =>
        \A i \in 1..Len(frame_data.val) :
            /\ frame_data.val[i].size >= 0
            /\ ("pkt_size" \notin DOMAIN RawList[i] => frame_data.val[i].size = 0)

\* the picture-type codes ffprobe prints for a coded picture
RecognizedTypes == {"I", "P", "B", "S", "i", "p", "b"}

\* C16: a record has type "P" when pict_type is absent or not a recognized
\* code, and the raw code when it is recognized.
C16_TypeDefault ==
    frame_data.tag = "ok" =>
        \A i \in 1..Len(frame_data.val) :
            IF "pict_type" \in DOMAIN RawList[i]
               /\ RawList[i]["pict_type"] \in RecognizedTypes
            THEN frame_data.val[i].type = RawList[i]["pict_type"]
            ELSE frame_data.val[i].type = "P"

\* C18: in the long-input case every windowed value is the arithmetic mean of
\* the window_frames consecutive per-frame bitrates that start at its index.
C18_WindowMean ==
    (HasStats /\ WindowFrames(Fps) >= 1 /\ Len(stats.val.bitrates) > WindowFrames(Fps)) =>
        LET w == WindowFrames(Fps)
        IN  \A i \in 1..Len(stats.val.windowed_bitrates) :
               RMul(stats.val.windowed_bitrates[i], FromInt(w))
                  = RSum(SubSeq(stats.val.bitrates, i, i + w - 1))

C18_Witness ==
    /\ HasStats
    /\ WindowFrames(Fps) = 2
    /\ Len(stats.val.bitrates) = 3
    /\ stats.val.bitrates[1] # stats.val.bitrates[2]
    /\ stats.val.bitrates[2] # stats.val.bitrates[3]
    /\ Len(stats.val.windowed_bitrates) = 2
    /\ stats.val.windowed_bitrates[1] # stats.val.windowed_bitrates[2]

\* what v1.0.0's _calculate_statistics returns for the inputs of this run
StatsV100 == CalculateStatistics_v1_0_0(frame_data.val, metadata.val)

\* _calculate_statistics was called with at least one frame
StatisticsCalled ==
    /\ frame_data.tag = "ok"
    /\ frame_data.val # <<>>
    /\ stats.tag # "notrun"

\* the summary values of the two versions agree
SameSummary ==
    \A k \in {"avg_bitrate", "max_bitrate", "min_bitrate",
              "frame_count", "i_frame_count"} :
        stats.val[k] = StatsV100.val[k]

\* the windowed series of the two versions agree
SameWindowed ==
    /\ stats.val.windowed_times = StatsV100.val.windowed_times
    /\ stats.val.windowed_bitrates = StatsV100.val.windowed_bitrates

\* C21: for every non-empty frame list and fps, _calculate_statistics of
\* v1.1.0 returns what _calculate_statistics of v1.0.0 returns for the same
\* arguments: the same windowed_times and windowed_bitrates and the same avg,
\* max, min, frame_count and i_frame_count.
C21_SameAsV100 ==
    StatisticsCalled =>
        /\ stats.tag = StatsV100.tag
        /\ SameWindowed
        /\ SameSummary

----------------------------------------------------------------------------
\* MainWindow.  A path is [dir, stem, suffix]; Path(p).name is stem + suffix.

\* Largest number of analyses the user starts.
MaxAnalyses == 2

VideoPath(stem) == [dir |-> "/videos", stem |-> stem, suffix |-> ".mov"]

Files == {VideoPath("a"), VideoPath("b"), VideoPath("empty"), VideoPath("bad")}

ExportPath == [dir |-> "/exports", stem |-> "out", suffix |-> ".json"]

PathName(p) == <<p.stem, p.suffix>>

PathParent(p) == p.dir

Frame_I == [pkt_pts_time |-> <<"0", ".", "5">>,
            pkt_size |-> <<"1", "2", "5", "0", "0", "0">>, pict_type |-> "I"]

Frame_P == [pkt_size |-> <<"2", "5", "0", "0", "0", "0">>, pict_type |-> "P"]

Frame_0 == [pkt_pts_time |-> <<"0">>,
            pkt_size |-> <<"3", "7", "5", "0", "0", "0">>, pict_type |-> "P"]

FrameJson(raw) == Json([frames |-> [t |-> "list", v |-> raw]])

MetaJson(rate) ==
    Json([streams |-> <<AudioStream, WithRate(VideoStream, rate)>>,
          format  |-> Format])

\* what ffprobe prints for each of the files the user can pick
ProbeOf(filepath) ==
    CASE filepath.stem = "a" ->
            [meta_out  |-> MetaJson(<<"2", "/", "1">>),
             frame_out |-> FrameJson(<<Frame_P, Frame_I, Frame_0>>)]
      [] filepath.stem = "b" ->
            [meta_out  |-> MetaJson(<<"8", "/", "3">>),
             frame_out |-> FrameJson(<<Frame_I, Frame_P>>)]
      [] filepath.stem = "empty" ->
            [meta_out  |-> MetaJson(<<"1", "/", "1">>),
             frame_out |-> FrameJson(<<>>)]
      [] filepath.stem = "bad" ->
            [meta_out  |-> Json([streams |-> <<AudioStream>>, format |-> Format]),
             frame_out |-> FrameJson(<<>>)]

\* the signals one execution of run() emits, in order
RunEvents(a, m_out, f_out) ==
    IF a = "raise" THEN <<Progress(10), Error("FFprobe not found")>>
    ELSE LET md == GetVideoMetadata(m_out)
         IN  IF md.tag = "raise"
             THEN <<Progress(10), Progress(20), Error("Analysis error")>>
             ELSE LET fd == GetFrameData(f_out, md.val.fps)
                  IN  IF fd.tag = "raise"
                      THEN <<Progress(10), Progress(20), Progress(40),
                             Error("Analysis error")>>
                      ELSE LET st == CalculateStatistics(fd.val, md.val)
                           IN  IF st.tag = "raise"
                               THEN <<Progress(10), Progress(20), Progress(40),
                                      Progress(70), Error("Analysis error")>>
                               ELSE <<Progress(10), Progress(20), Progress(40),
                                      Progress(70), Progress(90), Progress(100),
                                      Finished([metadata   |-> md.val,
                                                frame_data |-> fd.val,
                                                stats      |-> st.val])>>

\* the signals of the analyzer started on filepath (ffprobe is installed)
AnalyzerEvents(filepath) ==
    RunEvents("ok", ProbeOf(filepath).meta_out, ProbeOf(filepath).frame_out)

\* An analyzer is [filepath, signals]: signals are those of its run() that
\* the window has not handled yet, in the order of emission.

\* the k-th analyzer has a signal the window has not handled yet
Pending(k) == analyzers[k].signals # <<>>

NextSignal(k) == Head(analyzers[k].signals)

Handled(k) == [analyzers EXCEPT ![k].signals = Tail(@)]

ProgressMessage(value) ==
    CASE value = 10  -> "Checking FFprobe availability..."
      [] value = 20  -> "Extracting video metadata..."
      [] value = 40  -> "Analyzing frame data..."
      [] value = 70  -> "Calculating statistics..."
      [] value = 90  -> "Preparing results..."
      [] value = 100 -> "Analysis complete!"

\* zip(xs, ys): pairs up to the shorter of the two
Zip(xs, ys) ==
    LET n == IF Len(xs) < Len(ys) THEN Len(xs) ELSE Len(ys)
    IN  [i \in 1..n |-> <<xs[i], ys[i]>>]

\* Timeline with the bug of exporting the per-frame series
Timeline_Raw(st) ==
    LET z == Zip(st["times"], st["bitrates"])
    IN  [i \in 1..Len(z) |-> [time |-> z[i][1], bitrate_mbps |-> z[i][2]]]

\* the 'timeline' list comprehension of export_data
Timeline(st) ==
    LET z == Zip(st["windowed_times"], st["windowed_bitrates"])
    IN  [i \in 1..Len(z) |-> [time |-> z[i][1], bitrate_mbps |-> z[i][2]]]

\* the export_data dict written to the JSON file
ExportRecord(source_file, res) ==
    [source_file |-> source_file,
     metadata    |-> res.metadata,
     statistics  |-> [avg_bitrate_mbps |-> res.stats["avg_bitrate"],
                      max_bitrate_mbps |-> res.stats["max_bitrate"],
                      min_bitrate_mbps |-> res.stats["min_bitrate"],
                      std_bitrate_mbps |-> res.stats["std_bitrate"],
                      frame_count      |-> res.stats["frame_count"],
                      i_frame_count    |-> res.stats["i_frame_count"]],
     timeline    |-> Timeline(res.stats)]

\* analyze_file: the new thread replaces self.analyzer.  When the replaced
\* QThread has not delivered everything, dropping the last reference to it
\* either destroys a running thread (Qt aborts the process) or leaves its
\* connected signals to arrive later.
AnalyzeFile(filepath) ==
    /\ progress_bar' = [visible |-> TRUE, value |-> 0]
    /\ info_text' = [shown |-> FALSE]
    /\ export_btn' = FALSE
    /\ export_graph_btn' = FALSE
    /\ analyzers' = Append(analyzers, [filepath |-> filepath,
                                       signals  |-> AnalyzerEvents(filepath)])
    /\ IF analyzers # <<>> /\ Pending(Len(analyzers))
       THEN app' \in {"running", "QThreadDestroyed"}
       ELSE app' = "running"

\* select_file, with the file dialog's answer: a file, or cancelled
SelectFile ==
    /\ app = "running"
    /\ Len(analyzers) < MaxAnalyses
    /\ \/ /\ UNCHANGED uivars
       \/ \E filepath \in Files :
             /\ last_directory' = PathParent(filepath)
             /\ current_file' = filepath
             /\ file_label' = PathName(filepath)
             /\ AnalyzeFile(filepath)
             /\ UNCHANGED <<results, status_label, chart, exported>>
    /\ UNCHANGED runvars

\* update_progress, handling a progress signal of some analyzer
UpdateProgress ==
    /\ app = "running"
    /\ \E k \in 1..Len(analyzers) :
          /\ Pending(k)
          /\ NextSignal(k).sig = "progress"
          /\ progress_bar' = [progress_bar EXCEPT !.value = NextSignal(k).value]
          /\ status_label' = [status_label EXCEPT
                                 !.text = <<ProgressMessage(NextSignal(k).value)>>]
          /\ analyzers' = Handled(k)
    /\ UNCHANGED <<app, current_file, results, export_btn, export_graph_btn,
                   file_label, info_text, chart, last_directory, exported>>
    /\ UNCHANGED runvars

\* show_error, handling the error signal of some analyzer
ShowError ==
    /\ app = "running"
    /\ \E k \in 1..Len(analyzers) :
          /\ Pending(k)
          /\ NextSignal(k).sig = "error"
          /\ progress_bar' = [progress_bar EXCEPT !.visible = FALSE]
          /\ status_label' = [text  |-> <<"Error: ", NextSignal(k).message>>,
                              style |-> "color: #ff5252;"]
          /\ analyzers' = Handled(k)
    /\ UNCHANGED <<app, current_file, results, export_btn, export_graph_btn,
                   file_label, info_text, chart, last_directory, exported>>
    /\ UNCHANGED runvars

\* display_results, handling the finished signal of some analyzer; an
\* exception that escapes the slot makes PyQt6 abort the application
DisplayResults ==
    /\ app = "running"
    /\ \E k \in 1..Len(analyzers) :
          /\ Pending(k)
          /\ NextSignal(k).sig = "finished"
          /\ LET res == NextSignal(k).results
                 st  == res.stats
             IN  /\ results' = res
                 /\ progress_bar' = [progress_bar EXCEPT !.visible = FALSE]
                 /\ status_label' = [text  |-> <<"Analysis complete">>,
                                     style |-> "color: #00e676;"]
                 /\ export_btn' = TRUE
                 /\ export_graph_btn' = TRUE
                 /\ IF "times" \notin DOMAIN st
                    THEN /\ app' = "KeyError"
                         /\ UNCHANGED <<chart, info_text>>
                    ELSE /\ app' = "running"
                         /\ chart' = [plotted           |-> TRUE,
                                      times             |-> st["times"],
                                      bitrates          |-> st["bitrates"],
                                      windowed_times    |-> st["windowed_times"],
                                      windowed_bitrates |-> st["windowed_bitrates"]]
                         /\ info_text' =
                               [shown         |-> TRUE,
                                file          |-> PathName(current_file),
                                codec_long    |-> res.metadata.codec_long,
                                fps           |-> res.metadata.fps,
                                avg_bitrate   |-> st["avg_bitrate"],
                                max_bitrate   |-> st["max_bitrate"],
                                min_bitrate   |-> st["min_bitrate"],
                                std_bitrate   |-> st["std_bitrate"],
                                frame_count   |-> st["frame_count"],
                                i_frame_count |-> st["i_frame_count"]]
          /\ analyzers' = Handled(k)
    /\ UNCHANGED <<current_file, file_label, last_directory, exported>>
    /\ UNCHANGED runvars

\* export_data, reached from the export button (only while it is enabled)
\* or from the Ctrl+E shortcut, with the save dialog's answer
ExportData ==
    /\ app = "running"
    /\ \E via \in {"button", "shortcut"} :
          /\ via = "button" => export_btn
          /\ IF results = None
             THEN UNCHANGED uivars
             ELSE \/ UNCHANGED uivars
                  \/ /\ last_directory' = PathParent(ExportPath)
                     /\ IF "avg_bitrate" \notin DOMAIN results.stats
                        THEN /\ app' = "KeyError"
                             /\ UNCHANGED <<exported, status_label>>
                        ELSE /\ app' = "running"
                             /\ exported' = [path |-> ExportPath,
                                             data |-> ExportRecord(current_file, results)]
                             /\ status_label' =
                                   [status_label EXCEPT
                                       !.text = <<"Data exported to ">> \o PathName(ExportPath)]
                     /\ UNCHANGED <<current_file, results, analyzers, export_btn,
                                    export_graph_btn, progress_bar, file_label,
                                    info_text, chart>>
    /\ UNCHANGED runvars

NextUI ==
    \/ SelectFile
    \/ UpdateProgress
    \/ ShowError
    \/ DisplayResults
    \/ ExportData

SpecUI == Init /\ [][NextUI]_vars

----------------------------------------------------------------------------
\* Vocabulary of the MainWindow properties.

\* res is what the analysis of filepath hands over with its finished signal
ProducedBy(res, filepath) ==
    LET e == Last(AnalyzerEvents(filepath))
    IN  e.sig = "finished" /\ e.results = res

\* C12: when an analysis succeeds with zero frames, display_results and
\* export_data treat the empty statistics as no data: no exception escapes
\* them and the application keeps running.
C12_EmptyIsNoData ==
    (results # None /\ DOMAIN results.stats = {}) => app = "running"

\* C17: the timeline written by export_data has one entry per element of the
\* windowed series, entry i being {time: windowed_times[i], bitrate_mbps:
\* windowed_bitrates[i]}.
C17_TimelineFromWindowed ==
    [][ exported' # exported =>
          LET st == results.stats
              tl == exported'.data.timeline
          IN  /\ Len(tl) = Len(st["windowed_times"])
              /\ Len(tl) = Len(st["windowed_bitrates"])
              /\ \A i \in 1..Len(tl) :
                    tl[i] = [time         |-> st["windowed_times"][i],
                             bitrate_mbps |-> st["windowed_bitrates"][i]] ]_vars

C17_Witness ==
    /\ exported # None
    /\ results # None
    /\ Len(results.stats["times"]) = 3
    /\ Len(exported.data.timeline) = 2
    /\ exported.data.timeline[1].time = results.stats["windowed_times"][1]
    /\ exported.data.timeline[1].time # results.stats["times"][1]
    /\ exported.data.timeline[1].bitrate_mbps # results.stats["bitrates"][1]

\* C19: the results the window stores and displays were produced by the
\* analysis of the file held in current_file, whatever the interleaving of
\* analyze_file calls and analyzer signals.
C19_ResultsOfCurrentFile ==
    info_text.shown => ProducedBy(results, current_file)

\* C20: every record written by export_data carries statistics and a timeline
\* produced by the analysis of its source_file.
C20_ExportMatchesSource ==
    exported # None =>
        LET src == exported.data.source_file
            e   == Last(AnalyzerEvents(src))
        IN  /\ e.sig = "finished"
            /\ "avg_bitrate" \in DOMAIN e.results.stats
            /\ exported.data = ExportRecord(src, e.results)

====
